---- MODULE Spec2Model ----
(***************************************************************************)
(* MemoraBot file store and structural editors (app/tools.py, app/utils.py)*)
(* as a state machine over the storage tree.                               *)
(*                                                                         *)
(* A Python str is a sequence of characters; a character is a one-element  *)
(* TLA+ string.  ASCII characters stand for themselves, "\n" and "\r" are  *)
(* line feed and carriage return, "U+00E9" and "U+2022" are the code       *)
(* points e-acute (2 bytes in UTF-8) and bullet (3 bytes in UTF-8).        *)
(***************************************************************************)
EXTENDS FiniteSets, Integers, Sequences, TLC

LF == "\n"

CR == "\r"

EACUTE == "U+00E9"

BULLET == "U+2022"

\* the element of a one-element set: Only({e : x \in {v}}) is e where x is
\* v, with v computed once however often e names it
Only(S) == CHOOSE x \in S : TRUE

(***************************************************************************)
(* Python str primitives                                                   *)
(***************************************************************************)

\* number of bytes of one character under str.encode('utf-8')
Utf8Width(c) == IF c = EACUTE THEN 2 ELSE IF c = BULLET THEN 3 ELSE 1

RECURSIVE ByteLen(_)
\* len(content.encode('utf-8'))
ByteLen(s) == IF s = <<>> THEN 0 ELSE Utf8Width(Head(s)) + ByteLen(Tail(s))

UpperCase == <<"A","B","C","D","E","F","G","H","I","J","K","L","M",
               "N","O","P","Q","R","S","T","U","V","W","X","Y","Z">>

LowerCase == <<"a","b","c","d","e","f","g","h","i","j","k","l","m",
               "n","o","p","q","r","s","t","u","v","w","x","y","z">>

LowerChar(c) ==
    IF \E i \in 1..Len(UpperCase) : UpperCase[i] = c
    THEN LowerCase[CHOOSE i \in 1..Len(UpperCase) : UpperCase[i] = c]
    ELSE c

\* str.lower()
Lower(s) == [i \in 1..Len(s) |-> LowerChar(s[i])]

RECURSIVE LStrip(_, _)
\* str.lstrip(chars)
LStrip(s, cs) == IF s # <<>> /\ Head(s) \in cs THEN LStrip(Tail(s), cs) ELSE s

RECURSIVE RStrip(_, _)
\* str.rstrip(chars)
RStrip(s, cs) ==
    IF s # <<>> /\ s[Len(s)] \in cs THEN RStrip(SubSeq(s, 1, Len(s) - 1), cs) ELSE s

\* str.strip(chars)
Strip(s, cs) == RStrip(LStrip(s, cs), cs)

\* str.rfind(c) for a single character, 1-based, 0 when absent
RFind(s, c) ==
    IF \E i \in 1..Len(s) : s[i] = c
    THEN CHOOSE i \in 1..Len(s) : s[i] = c /\ \A j \in (i+1)..Len(s) : s[j] # c
    ELSE 0

\* the slice s[:k], k possibly negative
SliceTo(s, k) ==
    IF k >= 0 THEN SubSeq(s, 1, IF k < Len(s) THEN k ELSE Len(s))
    ELSE SubSeq(s, 1, IF Len(s) + k > 0 THEN Len(s) + k ELSE 0)

\* s.startswith(p) at offset i (1-based): s[i .. i+len(p)-1] = p
MatchAt(s, p, i) ==
    /\ i + Len(p) - 1 <= Len(s)
    /\ \A k \in 1..Len(p) : s[i + k - 1] = p[k]

\* p in s
Contains(s, p) == \E i \in 1..(Len(s) + 1) : MatchAt(s, p, i)

\* s.endswith(p)
EndsWith(s, p) == Len(p) <= Len(s) /\ MatchAt(s, p, Len(s) - Len(p) + 1)

RECURSIVE Split(_, _)
\* str.split(c) for a single-character separator: always at least one piece
Split(s, c) ==
    IF \A i \in 1..Len(s) : s[i] # c THEN <<s>>
    ELSE Only({
        <<SubSeq(s, 1, first - 1)>> \o Split(SubSeq(s, first + 1, Len(s)), c)
      : first \in {CHOOSE i \in 1..Len(s) : s[i] = c /\ \A j \in 1..(i - 1) : s[j] # c} })

RECURSIVE Join(_, _)
\* sep.join(parts)
Join(parts, sep) ==
    IF parts = <<>> THEN <<>>
    ELSE IF Len(parts) = 1 THEN parts[1]
    ELSE parts[1] \o sep \o Join(Tail(parts), sep)

RECURSIVE Replace(_, _, _)
\* str.replace(old, new): every non-overlapping occurrence, left to right;
\* an empty old matches before every character and at the end
Replace(s, old, new) ==
    IF old = <<>>
    THEN IF s = <<>> THEN new ELSE new \o <<Head(s)>> \o Replace(Tail(s), old, new)
    ELSE IF Len(s) < Len(old) THEN s
    ELSE IF MatchAt(s, old, 1)
         THEN new \o Replace(SubSeq(s, Len(old) + 1, Len(s)), old, new)
         ELSE <<Head(s)>> \o Replace(Tail(s), old, new)

\* list.insert(i, x) with a 0-based index 0 <= i
ListInsert(l, i, x) ==
    IF i >= Len(l) THEN Append(l, x)
    ELSE SubSeq(l, 1, i) \o <<x>> \o SubSeq(l, i + 1, Len(l))

(***************************************************************************)
(* app/utils.py: name sanitizers and the file-type check                   *)
(***************************************************************************)

max_length == 255

\* the character class without the path separator
InvalidFilenameCharsNoSlash == {"<", ">", ":", "\"", "\\", "|", "?", "*"}

InvalidFilenameChars == {"<", ">", ":", "\"", "/", "\\", "|", "?", "*"}

DigitChars == <<"0","1","2","3","4","5","6","7","8","9">>

\* datetime.now().strftime('%Y%m%d_%H%M%S') at clock reading t: the seconds
\* field; the fields before it do not change over the modelled interval
strftime(t) == <<DigitChars[((t \div 10) % 10) + 1], DigitChars[(t % 10) + 1]>>

\* sanitize_filename without the default name for a name that comes out empty
sanitize_filename_no_default(filename, t) ==
    Only({ Only({
        capped
      : capped \in {
          IF Len(stripped) > max_length
          THEN LET dot == RFind(stripped, ".")
                   name == SubSeq(stripped, 1, dot - 1)
                   ext == SubSeq(stripped, dot + 1, Len(stripped))
               IN  IF dot # 0
                   THEN SliceTo(name, max_length - Len(ext) - 1) \o <<".">> \o ext
                   ELSE SliceTo(stripped, max_length)
          ELSE stripped } })
      : stripped \in {
          Strip([i \in 1..Len(filename) |->
                   IF filename[i] \in InvalidFilenameChars THEN "_" ELSE filename[i]],
                {".", " "}) } })

sanitize_filename(filename, t) ==
    Only({ Only({
        IF capped = <<>> THEN <<"f","i","l","e","_">> \o strftime(t) ELSE capped
      : capped \in {
          IF Len(stripped) > max_length
          THEN LET dot == RFind(stripped, ".")
                   name == SubSeq(stripped, 1, dot - 1)
                   ext == SubSeq(stripped, dot + 1, Len(stripped))
               IN  IF dot # 0
                   THEN SliceTo(name, max_length - Len(ext) - 1) \o <<".">> \o ext
                   ELSE SliceTo(stripped, max_length)
          ELSE stripped } })
      : stripped \in {
          Strip([i \in 1..Len(filename) |->
                   IF filename[i] \in InvalidFilenameChars THEN "_" ELSE filename[i]],
                {".", " "}) } })

\* the characters kept in a bucket name, with the dot among them
BucketCharsWithDot ==
    {LowerCase[i] : i \in 1..Len(LowerCase)} \cup
    {DigitChars[i] : i \in 1..Len(DigitChars)} \cup {"_", "-", "."}

BucketChars ==
    {LowerCase[i] : i \in 1..Len(LowerCase)} \cup
    {DigitChars[i] : i \in 1..Len(DigitChars)} \cup {"_", "-"}

sanitize_bucket_name(bucket) ==
    Only({ Only({
        IF stripped = <<>> THEN <<"d","e","f","a","u","l","t">> ELSE stripped
      : stripped \in {
          Strip(SelectSeq([i \in 1..Len(lowered) |->
                             IF lowered[i] = " " THEN "_" ELSE lowered[i]],
                          LAMBDA c : c \in BucketChars),
                {"-", "_"}) } })
      : lowered \in {Lower(bucket)} })

\* pathlib.PurePosixPath(s).name: the last component that is neither empty
\* nor "."
PathName(s) ==
    Only({
        IF parts = <<>> THEN <<>> ELSE parts[Len(parts)]
      : parts \in {SelectSeq(Split(s, "/"), LAMBDA p : p # <<>> /\ p # <<".">>)} })

\* pathlib.PurePath.suffix
PathSuffix(s) ==
    Only({ Only({
        IF dot > 1 /\ dot < Len(name) THEN SubSeq(name, dot, Len(name)) ELSE <<>>
      : dot \in {RFind(name, ".")} })
      : name \in {PathName(s)} })

ALLOWED_FILE_TYPES ==
    <<".","t","x","t",",",".","m","d",",",".","j","s","o","n",",",".","y","a","m","l">>

is_allowed_file_type(filename) ==
    \E extension \in {Lower(PathSuffix(filename))},
       allowed \in {Split(ALLOWED_FILE_TYPES, ",")} :
        (\E i \in 1..Len(allowed) : allowed[i] = extension) \/ extension = <<>>

(***************************************************************************)
(* Text-mode file I/O as the code uses it: open(path, mode,                *)
(* encoding='utf-8') with the default newline=None.  A stored file is the  *)
(* character sequence whose UTF-8 encoding is on disk.                     *)
(***************************************************************************)

\* os.linesep of the POSIX platform the service runs on
os_linesep == <<LF>>

RECURSIVE TextWrite(_)
\* f.write(s) on a file opened 'w' or 'a': each "\n" becomes os.linesep
TextWrite(s) ==
    IF s = <<>> THEN <<>>
    ELSE (IF Head(s) = LF THEN os_linesep ELSE <<Head(s)>>) \o TextWrite(Tail(s))

RECURSIVE TextRead(_)
\* f.read() on a file opened 'r': universal newlines, "\r\n" and "\r"
\* are both returned as "\n"
TextRead(d) ==
    IF d = <<>> THEN <<>>
    ELSE IF Head(d) = CR
         THEN IF Len(d) >= 2 /\ d[2] = LF
              THEN <<LF>> \o TextRead(SubSeq(d, 3, Len(d)))
              ELSE <<LF>> \o TextRead(Tail(d))
         ELSE <<Head(d)>> \o TextRead(Tail(d))

RECURSIVE LinesFrom(_, _)
LinesFrom(s, acc) ==
    IF s = <<>> THEN (IF acc = <<>> THEN <<>> ELSE <<acc>>)
    ELSE IF Head(s) = LF THEN <<Append(acc, LF)>> \o LinesFrom(Tail(s), <<>>)
    ELSE LinesFrom(Tail(s), Append(acc, Head(s)))

\* f.readlines() of text s: the lines with their "\n" kept
ReadLines(s) == LinesFrom(s, <<>>)

\* [line.rstrip('\n') for line in lines]
RStripLines(lines) == [i \in 1..Len(lines) |-> RStrip(lines[i], {LF})]

(***************************************************************************)
(* app/config.py                                                           *)
(***************************************************************************)

\* Settings.max_file_size_bytes, with the configured ceiling scaled down to
\* a size that file contents of the model reach
max_file_size_bytes == 8

\* the check with the comparison off by one
ExceedsLimitOffByOne(size) == size > max_file_size_bytes + 1

\* the size check every mutating operation makes before it writes:
\* len(content_bytes) > settings.max_file_size_bytes
ExceedsLimit(size) == size > max_file_size_bytes

(***************************************************************************)
(* app/tools.py: the storage tree is the set dirs of bucket directories    *)
(* under data_dir and the function files from <<bucket, name>> to the      *)
(* stored text.  An operation maps a tree, the clock and its arguments to  *)
(* the tree it leaves, the exception it raises ("none" when it returns)    *)
(* and the value it returns.                                               *)
(***************************************************************************)

Outcome(d, f, e, r) == [dirs |-> d, files |-> f, exc |-> e, ret |-> r]

\* the file opened 'a' where the code opens it 'w'
StoreAppending(files, path, text) ==
    [p \in DOMAIN files \cup {path} |->
        IF p = path THEN (IF p \in DOMAIN files THEN files[p] ELSE <<>>) \o TextWrite(text)
        ELSE files[p]]

\* open(file_path, 'w').write(text)
Store(files, path, text) ==
    [p \in DOMAIN files \cup {path} |-> IF p = path THEN TextWrite(text) ELSE files[p]]

\* every file of the bucket removed with the one named
UnlinkBucket(files, path) ==
    [p \in {q \in DOMAIN files : q[1] # path[1]} |-> files[p]]

\* file_path.unlink()
Unlink(files, path) == [p \in DOMAIN files \ {path} |-> files[p]]

\* FileTools._get_bucket_path: the directory is created when missing
_get_bucket_path(dirs, bucket) ==
    Only({
        [path |-> safe_bucket, dirs |-> dirs \cup {safe_bucket}]
      : safe_bucket \in {sanitize_bucket_name(bucket)} })

\* FileTools._get_file_path
_get_file_path(dirs, bucket, filename, t) ==
    Only({
        [path |-> <<bp.path, safe_filename>>, dirs |-> bp.dirs]
      : safe_filename \in {sanitize_filename(filename, t)},
        bp \in {_get_bucket_path(dirs, bucket)} })

read_file(dirs, files, t, bucket, filename) ==
    Only({
        IF fp.path \notin DOMAIN files
        THEN Outcome(fp.dirs, files, "FileNotFoundError", [kind |-> "not found"])
        ELSE Outcome(fp.dirs, files, "none",
                     [kind |-> "content", content |-> TextRead(files[fp.path])])
      : fp \in {_get_file_path(dirs, bucket, filename, t)} })

\* write_file with the file opened for writing before the exists check
write_file_truncating(dirs, files, t, bucket, filename, content, overwrite) ==
    IF ~is_allowed_file_type(filename)
    THEN Outcome(dirs, files, "ValueError", [kind |-> "File type not allowed"])
    ELSE IF ExceedsLimit(ByteLen(content))
    THEN Outcome(dirs, files, "ValueError", [kind |-> "exceeds limit"])
    ELSE Only({
        IF fp.path \in DOMAIN files /\ ~overwrite
        THEN Outcome(fp.dirs, Store(files, fp.path, content), "ValueError",
                     [kind |-> "already exists"])
        ELSE Outcome(fp.dirs, Store(files, fp.path, content), "none",
                     [kind |-> IF overwrite THEN "Overwrote" ELSE "Created",
                      chars |-> Len(content)])
      : fp \in {_get_file_path(dirs, bucket, filename, t)} })

write_file(dirs, files, t, bucket, filename, content, overwrite) ==
    IF ~is_allowed_file_type(filename)
    THEN Outcome(dirs, files, "ValueError", [kind |-> "File type not allowed"])
    ELSE IF ExceedsLimit(ByteLen(content))
    THEN Outcome(dirs, files, "ValueError", [kind |-> "exceeds limit"])
    ELSE Only({
        IF fp.path \in DOMAIN files /\ ~overwrite
        THEN Outcome(fp.dirs, files, "ValueError", [kind |-> "already exists"])
        ELSE Only({
            Outcome(fp.dirs, written, "none",
                    [kind |-> IF fp.path \in DOMAIN written /\ overwrite
                              THEN "Overwrote" ELSE "Created",
                     chars |-> Len(content)])
          : written \in {Store(files, fp.path, content)} })
      : fp \in {_get_file_path(dirs, bucket, filename, t)} })

\* append_file with the separator written when the file is created too
append_file_always_separator(dirs, files, t, bucket, filename, content, separator) ==
    IF ~is_allowed_file_type(filename)
    THEN Outcome(dirs, files, "ValueError", [kind |-> "File type not allowed"])
    ELSE Only({
        LET exists == fp.path \in DOMAIN files
            existing_size == IF exists THEN ByteLen(files[fp.path]) ELSE 0
            separator_bytes == IF exists THEN ByteLen(separator) ELSE 0
            total_size == existing_size + separator_bytes + ByteLen(content)
        IN  IF ExceedsLimit(total_size)
            THEN Outcome(fp.dirs, files, "ValueError", [kind |-> "exceeds limit"])
            ELSE IF ~exists
            THEN Outcome(fp.dirs, Store(files, fp.path, separator \o content), "none",
                         [kind |-> "Created new file", chars |-> Len(content)])
            ELSE Outcome(fp.dirs,
                         [files EXCEPT ![fp.path] = @ \o TextWrite(separator \o content)],
                         "none", [kind |-> "Appended", chars |-> Len(content)])
      : fp \in {_get_file_path(dirs, bucket, filename, t)} })

append_file(dirs, files, t, bucket, filename, content, separator) ==
    IF ~is_allowed_file_type(filename)
    THEN Outcome(dirs, files, "ValueError", [kind |-> "File type not allowed"])
    ELSE Only({
        LET exists == fp.path \in DOMAIN files
            existing_size == IF exists THEN ByteLen(files[fp.path]) ELSE 0
            separator_bytes == IF exists THEN ByteLen(separator) ELSE 0
            total_size == existing_size + separator_bytes + ByteLen(content)
        IN  IF ExceedsLimit(total_size)
            THEN Outcome(fp.dirs, files, "ValueError", [kind |-> "exceeds limit"])
            ELSE IF ~exists
            THEN Outcome(fp.dirs, Store(files, fp.path, content), "none",
                         [kind |-> "Created new file", chars |-> Len(content)])
            ELSE Outcome(fp.dirs,
                         [files EXCEPT ![fp.path] = @ \o TextWrite(separator \o content)],
                         "none", [kind |-> "Appended", chars |-> Len(content)])
      : fp \in {_get_file_path(dirs, bucket, filename, t)} })

delete_file(dirs, files, t, bucket, filename) ==
    Only({
        IF fp.path \notin DOMAIN files
        THEN Outcome(fp.dirs, files, "FileNotFoundError", [kind |-> "not found"])
        ELSE Only({
            IF bp.path \in bp.dirs /\ ~\E p \in DOMAIN left : p[1] = bp.path
            THEN Outcome(bp.dirs \ {bp.path}, left, "none",
                         [kind |-> "deleted and removed empty bucket"])
            ELSE Outcome(bp.dirs, left, "none", [kind |-> "deleted"])
          : left \in {Unlink(files, fp.path)},
            bp \in {_get_bucket_path(fp.dirs, bucket)} })
      : fp \in {_get_file_path(dirs, bucket, filename, t)} })

\* FileTools.list_files: bucket is <<>> for None and for "" (both falsy).
\* The entries are given as a set: each has the bucket as the caller named it
\* (the directory's name when every bucket is listed), the file's name and
\* its size in bytes.  Resolving a named bucket creates its directory.
list_files(dirs, files, bucket) ==
    IF bucket # <<>>
    THEN Only({
        Outcome(bp.dirs, files, "none",
                [kind |-> "files",
                 entries |-> {[bucket |-> bucket, filename |-> p[2],
                               size |-> ByteLen(files[p])]
                              : p \in {q \in DOMAIN files : q[1] = bp.path}}])
      : bp \in {_get_bucket_path(dirs, bucket)} })
    ELSE Outcome(dirs, files, "none",
                 [kind |-> "files",
                  entries |-> {[bucket |-> p[1], filename |-> p[2],
                                size |-> ByteLen(files[p])] : p \in DOMAIN files}])

(***************************************************************************)
(* app/utils.py: diff; app/tools.py: the structural editors                *)
(***************************************************************************)

\* difflib.unified_diff yields nothing for equal sequences; otherwise the
\* two header lines, then the hunks relating original_lines to
\* modified_lines
generate_diff(original_lines, modified_lines, filename) ==
    IF original_lines = modified_lines
    THEN [fromfile |-> <<>>, tofile |-> <<>>, a |-> <<>>, b |-> <<>>]
    ELSE [fromfile |-> <<filename, "(original)">>,
          tofile |-> <<filename, "(modified)">>,
          a |-> original_lines, b |-> modified_lines]

edit_file_lines(dirs, files, t, bucket, filename, search_text, replacement_text) ==
    Only({
        IF fp.path \notin DOMAIN files
        THEN Outcome(fp.dirs, files, "FileNotFoundError", [kind |-> "not found"])
        ELSE Only({ Only({
            IF modified_content = content
            THEN Outcome(fp.dirs, files, "none", [kind |-> "No matches found"])
            ELSE IF ExceedsLimit(ByteLen(modified_content))
            THEN Outcome(fp.dirs, files, "ValueError", [kind |-> "exceeds limit"])
            ELSE Outcome(fp.dirs, Store(files, fp.path, modified_content), "none",
                         [kind |-> "Successfully replaced text",
                          diff |-> generate_diff(Split(content, LF),
                                                 Split(modified_content, LF),
                                                 <<bucket, filename>>)])
          : modified_content \in {Replace(content, search_text, replacement_text)} })
          : content \in {TextRead(files[fp.path])} })
      : fp \in {_get_file_path(dirs, bucket, filename, t)} })

\* insert_at_line with the line after the last one taken to be in range
insert_at_line_past_end(dirs, files, t, bucket, filename, line_number, text, position) ==
    Only({
        IF fp.path \notin DOMAIN files
        THEN Outcome(fp.dirs, files, "FileNotFoundError", [kind |-> "not found"])
        ELSE IF position \notin {"before", "after", "replace"}
        THEN Outcome(fp.dirs, files, "ValueError", [kind |-> "Position must be"])
        ELSE Only({
            IF target_index < 0 \/ target_index > Len(lines)
            THEN Outcome(fp.dirs, files, "ValueError", [kind |-> "out of range"])
            ELSE Only({ Only({
                IF ExceedsLimit(ByteLen(modified_content))
                THEN Outcome(fp.dirs, files, "ValueError", [kind |-> "exceeds limit"])
                ELSE Outcome(fp.dirs, Store(files, fp.path, modified_content), "none",
                             [kind |-> "Successfully inserted",
                              diff |-> generate_diff(RStripLines(lines),
                                                     RStripLines(new_lines),
                                                     <<bucket, filename>>)])
              : modified_content \in {Join(new_lines, <<>>)} })
              : new_lines \in {
                  IF position = "before"
                  THEN ListInsert(lines, target_index, text \o <<LF>>)
                  ELSE IF position = "after"
                  THEN ListInsert(lines, target_index + 1, text \o <<LF>>)
                  ELSE [lines EXCEPT ![target_index + 1] = text \o <<LF>>] } })
          : lines \in {ReadLines(TextRead(files[fp.path]))},
            target_index \in {line_number - 1} })
      : fp \in {_get_file_path(dirs, bucket, filename, t)} })

insert_at_line(dirs, files, t, bucket, filename, line_number, text, position) ==
    Only({
        IF fp.path \notin DOMAIN files
        THEN Outcome(fp.dirs, files, "FileNotFoundError", [kind |-> "not found"])
        ELSE IF position \notin {"before", "after", "replace"}
        THEN Outcome(fp.dirs, files, "ValueError", [kind |-> "Position must be"])
        ELSE Only({
            IF target_index < 0 \/ target_index >= Len(lines)
            THEN Outcome(fp.dirs, files, "ValueError", [kind |-> "out of range"])
            ELSE Only({ Only({
                IF ExceedsLimit(ByteLen(modified_content))
                THEN Outcome(fp.dirs, files, "ValueError", [kind |-> "exceeds limit"])
                ELSE Outcome(fp.dirs, Store(files, fp.path, modified_content), "none",
                             [kind |-> "Successfully inserted",
                              diff |-> generate_diff(RStripLines(lines),
                                                     RStripLines(new_lines),
                                                     <<bucket, filename>>)])
              : modified_content \in {Join(new_lines, <<>>)} })
              : new_lines \in {
                  IF position = "before"
                  THEN ListInsert(lines, target_index, text \o <<LF>>)
                  ELSE IF position = "after"
                  THEN ListInsert(lines, target_index + 1, text \o <<LF>>)
                  ELSE [lines EXCEPT ![target_index + 1] = text \o <<LF>>] } })
          : lines \in {ReadLines(TextRead(files[fp.path]))},
            target_index \in {line_number - 1} })
      : fp \in {_get_file_path(dirs, bucket, filename, t)} })

\* the marker scan of replace_section, 1-based, 0 for None
StartIdx(lines, start_marker) ==
    IF \E i \in 1..Len(lines) : Contains(lines[i], start_marker)
    THEN CHOOSE i \in 1..Len(lines) :
            /\ Contains(lines[i], start_marker)
            /\ \A j \in 1..(i - 1) : ~Contains(lines[j], start_marker)
    ELSE 0

\* the scan for the end marker begun on the line of the start marker itself
EndIdxFromStart(lines, start_idx, end_marker) ==
    IF start_idx # 0 /\ \E i \in start_idx..Len(lines) : Contains(lines[i], end_marker)
    THEN CHOOSE i \in start_idx..Len(lines) :
            /\ Contains(lines[i], end_marker)
            /\ \A j \in start_idx..(i - 1) : ~Contains(lines[j], end_marker)
    ELSE 0

EndIdx(lines, start_idx, end_marker) ==
    IF start_idx # 0 /\ \E i \in (start_idx + 1)..Len(lines) : Contains(lines[i], end_marker)
    THEN CHOOSE i \in (start_idx + 1)..Len(lines) :
            /\ Contains(lines[i], end_marker)
            /\ \A j \in (start_idx + 1)..(i - 1) : ~Contains(lines[j], end_marker)
    ELSE 0

replace_section(dirs, files, t, bucket, filename, start_marker, end_marker, new_content) ==
    Only({
        IF fp.path \notin DOMAIN files
        THEN Outcome(fp.dirs, files, "FileNotFoundError", [kind |-> "not found"])
        ELSE Only({ Only({ Only({
            IF start_idx = 0
            THEN Outcome(fp.dirs, files, "none", [kind |-> "Start marker not found"])
            ELSE IF end_idx = 0
            THEN Outcome(fp.dirs, files, "none", [kind |-> "End marker not found"])
            ELSE Only({ Only({
                IF ExceedsLimit(ByteLen(modified_content))
                THEN Outcome(fp.dirs, files, "ValueError", [kind |-> "exceeds limit"])
                ELSE Outcome(fp.dirs, Store(files, fp.path, modified_content), "none",
                             [kind |-> "Successfully replaced section",
                              diff |-> generate_diff(lines, new_lines,
                                                     <<bucket, filename>>)])
              : modified_content \in {Join(new_lines, <<LF>>)} })
              : new_lines \in {SubSeq(lines, 1, start_idx) \o <<new_content>>
                                 \o SubSeq(lines, end_idx, Len(lines))} })
          : end_idx \in {EndIdx(lines, start_idx, end_marker)} })
          : start_idx \in {StartIdx(lines, start_marker)} })
          : lines \in {Split(TextRead(files[fp.path]), LF)} })
      : fp \in {_get_file_path(dirs, bucket, filename, t)} })

(***************************************************************************)
(* Regular expressions as find_and_modify uses them.  A search_pattern is  *)
(* a sequence of literal characters and ".", which matches any character   *)
(* but "\n"; new_content holds no backslash, so re.sub inserts it as is.   *)
(***************************************************************************)

ReMatchAt(pattern, s, i) ==
    /\ i + Len(pattern) - 1 <= Len(s)
    /\ \A k \in 1..Len(pattern) :
          IF pattern[k] = "." THEN s[i + k - 1] # LF ELSE s[i + k - 1] = pattern[k]

\* re.search(pattern, s) is not None
re_search(pattern, s) == \E i \in 1..(Len(s) + 1) : ReMatchAt(pattern, s, i)

RECURSIVE ReSubFrom(_, _, _, _)
ReSubFrom(pattern, repl, s, i) ==
    IF i > Len(s) + 1 THEN <<>>
    ELSE IF ReMatchAt(pattern, s, i)
    THEN IF pattern = <<>>
         THEN repl \o (IF i <= Len(s) THEN <<s[i]>> ELSE <<>>)
                   \o ReSubFrom(pattern, repl, s, i + 1)
         ELSE repl \o ReSubFrom(pattern, repl, s, i + Len(pattern))
    ELSE IF i <= Len(s) THEN <<s[i]>> \o ReSubFrom(pattern, repl, s, i + 1)
    ELSE <<>>

\* re.sub(pattern, repl, s): every non-overlapping match, left to right
re_sub(pattern, repl, s) == ReSubFrom(pattern, repl, s, 1)

\* the 1-based index of the first line re.search matches, 0 if none
FirstMatch(lines, search_pattern) ==
    IF \E i \in 1..Len(lines) : re_search(search_pattern, lines[i])
    THEN CHOOSE i \in 1..Len(lines) :
            /\ re_search(search_pattern, lines[i])
            /\ \A j \in 1..(i - 1) : ~re_search(search_pattern, lines[j])
    ELSE 0

find_and_modify(dirs, files, t, bucket, filename, search_pattern, modification_type, new_content) ==
    Only({
        IF fp.path \notin DOMAIN files
        THEN Outcome(fp.dirs, files, "FileNotFoundError", [kind |-> "not found"])
        ELSE IF modification_type \notin {"replace", "insert_before", "insert_after", "delete"}
        THEN Outcome(fp.dirs, files, "ValueError", [kind |-> "modification_type must be"])
        ELSE Only({ Only({
            IF i = 0
            THEN Outcome(fp.dirs, files, "none", [kind |-> "Pattern not found"])
            ELSE Only({ Only({
                IF ExceedsLimit(ByteLen(modified_content))
                THEN Outcome(fp.dirs, files, "ValueError", [kind |-> "exceeds limit"])
                ELSE Outcome(fp.dirs, Store(files, fp.path, modified_content), "none",
                             [kind |-> "Successfully modified",
                              diff |-> generate_diff(original_lines, lines,
                                                     <<bucket, filename>>)])
              : modified_content \in {Join(lines, <<LF>>)} })
              : lines \in {
                  IF modification_type = "replace"
                  THEN [original_lines EXCEPT
                          ![i] = re_sub(search_pattern, new_content, original_lines[i])]
                  ELSE IF modification_type = "insert_before"
                  THEN ListInsert(original_lines, i - 1, new_content)
                  ELSE IF modification_type = "insert_after"
                  THEN ListInsert(original_lines, i, new_content)
                  ELSE SubSeq(original_lines, 1, i - 1)
                         \o SubSeq(original_lines, i + 1, Len(original_lines)) } })
          : i \in {FirstMatch(original_lines, search_pattern)} })
          : original_lines \in {Split(TextRead(files[fp.path]), LF)} })
      : fp \in {_get_file_path(dirs, bucket, filename, t)} })

(***************************************************************************)
(* app/utils.py: similarity (difflib.SequenceMatcher) and placement        *)
(***************************************************************************)

RECURSIVE CommonPrefix(_, _, _, _)
\* the length of the longest k with a[i .. i+k-1] = b[j .. j+k-1]
CommonPrefix(a, b, i, j) ==
    IF i <= Len(a) /\ j <= Len(b) /\ a[i] = b[j]
    THEN 1 + CommonPrefix(a, b, i + 1, j + 1) ELSE 0

\* SequenceMatcher.find_longest_match without junk: the longest block, of
\* those the one starting earliest in a, of those the earliest in b
LongestMatch(a, b) ==
    Only({ Only({
        IF cand = {} THEN [i |-> 0, j |-> 0, k |-> 0]
        ELSE Only({
            [i |-> best[1], j |-> best[2], k |-> size[best]]
          : best \in {CHOOSE x \in cand : \A y \in cand :
                        \/ size[x] > size[y]
                        \/ size[x] = size[y] /\ x[1] < y[1]
                        \/ size[x] = size[y] /\ x[1] = y[1] /\ x[2] <= y[2]} })
      : size \in {[x \in cand |-> CommonPrefix(a, b, x[1], x[2])]} })
      : cand \in {{ij \in (1..Len(a)) \X (1..Len(b)) : a[ij[1]] = b[ij[2]]}} })

RECURSIVE MatchedSize(_, _)
\* sum of the sizes of SequenceMatcher.get_matching_blocks()
MatchedSize(a, b) ==
    Only({
        IF m.k = 0 THEN 0
        ELSE Only({
            m.k + MatchedSize(a_left, b_left) + MatchedSize(a_right, b_right)
          : a_left \in {SubSeq(a, 1, m.i - 1)},
            b_left \in {SubSeq(b, 1, m.j - 1)},
            a_right \in {SubSeq(a, m.i + m.k, Len(a))},
            b_right \in {SubSeq(b, m.j + m.k, Len(b))} })
      : m \in {LongestMatch(a, b)} })

\* SequenceMatcher(None, a, b).ratio() as the fraction num / den
Ratio(a, b) ==
    IF Len(a) + Len(b) = 0 THEN [num |-> 1, den |-> 1]
    ELSE [num |-> 2 * MatchedSize(a, b), den |-> Len(a) + Len(b)]

\* x >= threshold for the threshold tnum / tden
RatioGeq(x, tnum, tden) == x.num * tden >= tnum * x.den

\* x > y
RatioGt(x, y) == x.num * y.den > y.num * x.den

\* the first line, from the top, that reaches the threshold, whatever the
\* later lines score
MostSimilarLineFirstHit(content, target_text, tnum, tden) ==
    Only({ Only({
        IF hits = {} THEN [line_num |-> 0, line_text |-> <<>>]
        ELSE Only({
            [line_num |-> first, line_text |-> lines[first]]
          : first \in {CHOOSE i \in hits : \A j \in hits : i <= j} })
      : hits \in {{i \in 1..Len(lines) :
                     RatioGeq(Ratio(Lower(target_text), Lower(lines[i])), tnum, tden)}} })
      : lines \in {Split(content, LF)} })

\* find_similar_lines(content, target_text, tnum/tden)[0]: the stable
\* descending sort puts first the earliest line of the highest similarity;
\* line 0 when the list is empty
MostSimilarLine(content, target_text, tnum, tden) ==
    Only({ Only({ Only({
        IF hits = {} THEN [line_num |-> 0, line_text |-> <<>>]
        ELSE Only({
            [line_num |-> first, line_text |-> lines[first]]
          : first \in {CHOOSE i \in hits :
                         \A j \in hits : /\ ~RatioGt(similarity[j], similarity[i])
                                         /\ (j < i => RatioGt(similarity[i],
                                                              similarity[j]))} })
      : hits \in {{i \in 1..Len(lines) : RatioGeq(similarity[i], tnum, tden)}} })
      : similarity \in {[i \in 1..Len(lines) |->
                           Only({Ratio(target, line)
                                 : target \in {Lower(target_text)},
                                   line \in {Lower(lines[i])}})]} })
      : lines \in {Split(content, LF)} })

\* characters \s matches and str.strip() removes, among those of the model
Whitespace == {" ", "\t", LF, CR}

\* re.match(list_patterns[k], line)
ListPatternMatch(k, line) ==
    \E rest \in {LStrip(line, Whitespace)} :
        IF k = 1 THEN Len(rest) >= 2 /\ rest[1] \in {"-", "*", "+"} /\ rest[2] \in Whitespace
        ELSE IF k = 2
        THEN \E afterDigits \in {LStrip(rest, {DigitChars[i] : i \in 1..Len(DigitChars)})} :
                /\ Len(afterDigits) < Len(rest)
                /\ Len(afterDigits) >= 2
                /\ afterDigits[1] = "."
                /\ afterDigits[2] \in Whitespace
        ELSE Len(rest) >= 2 /\ rest[1] = BULLET /\ rest[2] \in Whitespace

\* the end of the list taken as the first later line that is blank or matches
\* none of the three patterns
_find_list_insertion_point_any_pattern(lines) ==
    Only({
        IF \A i \in 1..Len(lines) : ~isItem[i] THEN Len(lines)
        ELSE Only({
            IF \E j \in (i + 1)..Len(lines) : stops[j]
            THEN (CHOOSE j \in (i + 1)..Len(lines) :
                     stops[j] /\ \A h \in (i + 1)..(j - 1) : ~stops[h]) - 1
            ELSE Len(lines)
          : i \in {CHOOSE x \in 1..Len(lines) :
                     isItem[x] /\ \A y \in 1..(x - 1) : ~isItem[y]},
            stops \in {[j \in 1..Len(lines) |->
                          \/ Strip(lines[j], Whitespace) = <<>>
                          \/ ~isItem[j]]} })
      : isItem \in {[i \in 1..Len(lines) |-> \E k \in 1..3 : ListPatternMatch(k, lines[i])]} })

\* 0-based insertion index
_find_list_insertion_point(lines) ==
    Only({
        IF \A i \in 1..Len(lines) : matched[i] = 0 THEN Len(lines)
        ELSE Only({ Only({
            IF \E j \in (i + 1)..Len(lines) : stops[j]
            THEN (CHOOSE j \in (i + 1)..Len(lines) :
                     stops[j] /\ \A h \in (i + 1)..(j - 1) : ~stops[h]) - 1
            ELSE Len(lines)
          : stops \in {[j \in 1..Len(lines) |->
                          \/ Strip(lines[j], Whitespace) = <<>>
                          \/ ~ListPatternMatch(matched[i], lines[j])]} })
          : i \in {CHOOSE x \in 1..Len(lines) :
                     matched[x] # 0 /\ \A y \in 1..(x - 1) : matched[y] = 0} })
      : matched \in {[i \in 1..Len(lines) |->
                        IF \E k \in 1..3 : ListPatternMatch(k, lines[i])
                        THEN CHOOSE k \in 1..3 :
                                /\ ListPatternMatch(k, lines[i])
                                /\ \A h \in 1..(k - 1) : ~ListPatternMatch(h, lines[i])
                        ELSE 0]} })

task_keywords == << <<"t","o","d","o">>, <<"t","a","s","k">>,
                    <<"-"," ","["," ","]">>, <<"-"," ","[","x","]">> >>

_find_task_insertion_point(lines) ==
    Only({
        IF \E i \in 1..Len(lines) : hit[i]
        THEN CHOOSE i \in 1..Len(lines) : hit[i] /\ \A j \in 1..(i - 1) : ~hit[j]
        ELSE Len(lines)
      : hit \in {[i \in 1..Len(lines) |->
                    \E line \in {Lower(lines[i])} :
                        \E k \in 1..Len(task_keywords) : Contains(line, task_keywords[k])]} })

_find_note_insertion_point(lines) ==
    Only({
        IF \E i \in 1..Len(lines) : blank[i]
        THEN CHOOSE i \in 1..Len(lines) : blank[i] /\ \A j \in (i + 1)..Len(lines) : ~blank[j]
        ELSE Len(lines)
      : blank \in {[i \in 1..Len(lines) |-> Strip(lines[i], Whitespace) = <<>>]} })

_find_default_insertion_point(lines) == Len(lines)

smart_content_placement(existing_content, content_type_hint) ==
    Only({
        IF content_type_hint = "list" THEN _find_list_insertion_point(lines)
        ELSE IF content_type_hint = "task" THEN _find_task_insertion_point(lines)
        ELSE IF content_type_hint = "note" THEN _find_note_insertion_point(lines)
        ELSE _find_default_insertion_point(lines)
      : lines \in {Split(existing_content, LF)} })

smart_append(dirs, files, t, bucket, filename, content, section_hint, avoid_duplicates) ==
    Only({ Only({ Only({
        IF avoid_duplicates /\ existing_content # <<>> /\ similar.line_num # 0
        THEN Outcome(fp.dirs, files, "none",
                     [kind |-> "Similar content already exists",
                      line_num |-> similar.line_num, line_text |-> similar.line_text])
        ELSE Only({ Only({
            IF ExceedsLimit(ByteLen(modified_content))
            THEN Outcome(fp.dirs, files, "ValueError", [kind |-> "exceeds limit"])
            ELSE Outcome(fp.dirs, Store(files, fp.path, modified_content), "none",
                         IF existing_content # <<>>
                         THEN [kind |-> "Smart append",
                               diff |-> generate_diff(lines, Split(modified_content, LF),
                                                      <<bucket, filename>>)]
                         ELSE [kind |-> "Created new file", chars |-> Len(content)])
          : modified_content \in {
              IF existing_content # <<>>
              THEN IF insertion_line >= Len(lines)
                   THEN IF ~EndsWith(existing_content, <<LF>>)
                        THEN existing_content \o <<LF>> \o content
                        ELSE existing_content \o content
                   ELSE Join(ListInsert(lines, insertion_line, content), <<LF>>)
              ELSE content } })
          : insertion_line \in {smart_content_placement(existing_content, section_hint)},
            lines \in {Split(existing_content, LF)} })
      : similar \in {MostSimilarLine(existing_content, content, 8, 10)} })
      : existing_content \in {IF fp.path \in DOMAIN files
                              THEN TextRead(files[fp.path]) ELSE <<>>} })
      : fp \in {_get_file_path(dirs, bucket, filename, t)} })

\* the slice l[start:end] with start >= 0 and end possibly negative
Slice(l, start, end) ==
    SubSeq(l, start + 1,
           IF end < 0 THEN (IF Len(l) + end > 0 THEN Len(l) + end ELSE 0)
           ELSE IF end < Len(l) THEN end ELSE Len(l))

Max(x, y) == IF x > y THEN x ELSE y

Min(x, y) == IF x < y THEN x ELSE y

\* around_line is <<>> for None and <<n>> for the integer n (None and 0 are
\* both falsy); around_text is <<>> for None and for "" (both falsy)
get_file_preview(dirs, files, t, bucket, filename, around_line, around_text, context_lines) ==
    Only({
        IF fp.path \notin DOMAIN files
        THEN Outcome(fp.dirs, files, "FileNotFoundError", [kind |-> "not found"])
        ELSE Only({
            LET Window(center_line) ==
                    Only({ Only({
                        [i \in 1..Len(preview_lines) |->
                           [line_num |-> start + i, line |-> preview_lines[i]]]
                      : preview_lines \in {Slice(lines, start, end)} })
                      : start \in {Max(0, center_line - context_lines)},
                        end \in {Min(Len(lines), center_line + context_lines + 1)} })
            IN  IF around_line # <<>> /\ around_line[1] # 0
                THEN Outcome(fp.dirs, files, "none",
                             [kind |-> "Preview", preview |-> Window(around_line[1] - 1)])
                ELSE IF around_text # <<>>
                THEN Only({
                    IF \E i \in 1..Len(lines) : hit[i]
                    THEN Only({
                        Outcome(fp.dirs, files, "none",
                                [kind |-> "Preview", preview |-> Window(first - 1)])
                      : first \in {CHOOSE i \in 1..Len(lines) :
                                     hit[i] /\ \A j \in 1..(i - 1) : ~hit[j]} })
                    ELSE Outcome(fp.dirs, files, "none", [kind |-> "Text not found"])
                  : hit \in {[i \in 1..Len(lines) |->
                                \E line \in {Lower(lines[i])}, text \in {Lower(around_text)} :
                                    Contains(line, text)]} })
                ELSE Only({
                    Outcome(fp.dirs, files, "none",
                            [kind |-> "Preview",
                             preview |-> [i \in 1..Len(top) |->
                                            [line_num |-> i, line |-> top[i]]]])
                  : top \in {Slice(lines, 0, context_lines * 2)} })
          : lines \in {Split(TextRead(files[fp.path]), LF)} })
      : fp \in {_get_file_path(dirs, bucket, filename, t)} })

\* str.find(p), 0-based; p occurs in s
Find(s, p) ==
    (CHOOSE i \in 1..(Len(s) + 1) :
        MatchAt(s, p, i) /\ \A j \in 1..(i - 1) : ~MatchAt(s, p, j)) - 1

\* the excerpt search_files cuts around the first match of query in content
Excerpt(content, query) ==
    Only({ Only({
        (IF start > 0 THEN <<".", ".", ".">> ELSE <<>>)
          \o Strip(SubSeq(content, start + 1, end), Whitespace)
          \o (IF end < Len(content) THEN <<".", ".", ".">> ELSE <<>>)
      : start \in {Max(0, match_index - 50)},
        end \in {Min(Len(content), match_index + Len(query) + 50)} })
      : match_index \in {Find(Lower(content), Lower(query))} })

\* one entry of the list search_files returns
SearchResult(e, content, query) ==
    [file |-> <<e.bucket, e.filename>>, bucket |-> e.bucket, filename |-> e.filename,
     excerpt |-> Excerpt(content, query), size |-> Len(content)]

\* The results are given as a set.  Each listed file is read through
\* read_file; a file read_file cannot read is skipped.
search_files(dirs, files, t, query, bucket) ==
    Only({
        Outcome(lf.dirs \cup UNION {read_file(lf.dirs, files, t, e.bucket, e.filename).dirs
                                    : e \in lf.ret.entries},
                files, "none",
                [kind |-> "results",
                 results |->
                    {SearchResult(e, read_file(lf.dirs, files, t, e.bucket,
                                               e.filename).ret.content, query)
                     : e \in {x \in lf.ret.entries :
                                \E r \in {read_file(lf.dirs, files, t, x.bucket, x.filename)} :
                                   /\ r.exc = "none"
                                   /\ Contains(Lower(r.ret.content), Lower(query))}}])
      : lf \in {list_files(dirs, files, bucket)} })

(***************************************************************************)
(* The state machine.  One caller invokes the operations one at a time;    *)
(* last holds the call that has returned, with its outcome, until the      *)
(* caller takes it.  inflight holds the calls of concurrent callers that   *)
(* are between their read of the file and their write.                     *)
(***************************************************************************)

VARIABLES dirs, files, now, last, calls, inflight

vars == <<dirs, files, now, last, calls, inflight>>

\* the number of calls one behaviour of the model makes
MaxCalls == 3

\* the last reading of the clock
MaxClock == 1

Idle == [op |-> "idle"]

Callers == {1, 2}

NoCalls == [proc |-> [p \in Callers |-> [pc |-> "idle"]], order |-> <<>>]

\* FileTools.__init__: data_dir exists and is empty
Init ==
    /\ dirs = {}
    /\ files = <<>>
    /\ now = 0
    /\ last = Idle
    /\ calls = 0
    /\ inflight = NoCalls

\* the tool functions the agent registers: the FileTools method a call names,
\* applied to the tree (d, f) at clock reading t
Apply(op, bucket, filename, args, d, f, t) ==
    IF op = "read_file" THEN read_file(d, f, t, bucket, filename)
    ELSE IF op = "write_file"
    THEN write_file(d, f, t, bucket, filename, args.content, args.overwrite)
    ELSE IF op = "append_file"
    THEN append_file(d, f, t, bucket, filename, args.content, args.separator)
    ELSE IF op = "delete_file" THEN delete_file(d, f, t, bucket, filename)
    ELSE IF op = "list_files" THEN list_files(d, f, bucket)
    ELSE IF op = "search_files" THEN search_files(d, f, t, args.query, bucket)
    ELSE IF op = "edit_file_lines"
    THEN edit_file_lines(d, f, t, bucket, filename, args.search_text,
                         args.replacement_text)
    ELSE IF op = "insert_at_line"
    THEN insert_at_line(d, f, t, bucket, filename, args.line_number, args.text,
                        args.position)
    ELSE IF op = "replace_section"
    THEN replace_section(d, f, t, bucket, filename, args.start_marker,
                         args.end_marker, args.new_content)
    ELSE IF op = "find_and_modify"
    THEN find_and_modify(d, f, t, bucket, filename, args.search_pattern,
                         args.modification_type, args.new_content)
    ELSE IF op = "smart_append"
    THEN smart_append(d, f, t, bucket, filename, args.content, args.section_hint,
                      args.avoid_duplicates)
    ELSE get_file_preview(d, f, t, bucket, filename, args.around_line,
                          args.around_text, args.context_lines)

\* one call, start to end: r is what the operation makes of the tree; the
\* tree is left as r leaves it and the outcome is handed to the caller
Call(op, bucket, filename, args, r) ==
    /\ last = Idle
    /\ calls < MaxCalls
    /\ \E res \in {r} :
        /\ calls' = calls + 1
        /\ dirs' = res.dirs
        /\ files' = res.files
        /\ last' = [op |-> op, bucket |-> bucket, filename |-> filename, args |-> args,
                    path |-> _get_file_path(dirs, bucket, filename, now).path,
                    exc |-> res.exc, ret |-> res.ret]
        /\ UNCHANGED <<now, inflight>>

\* the caller takes the returned value or the raised exception
Return ==
    /\ last # Idle
    /\ last' = Idle
    /\ UNCHANGED <<dirs, files, now, calls, inflight>>

\* time passes between calls
Tick ==
    /\ last = Idle
    /\ now < MaxClock
    /\ now' = now + 1
    /\ UNCHANGED <<dirs, files, last, calls, inflight>>

(***************************************************************************)
(* Inputs                                                                  *)
(***************************************************************************)

\* the character c, n times
Rep(c, n) == [i \in 1..n |-> c]

\* every string of at most n characters of alphabet
Strings(alphabet, n) == UNION {[1..k -> alphabet] : k \in 0..n}

Notes == <<"n">>

NotesF == <<"f">>

NotesExe == <<"f", ".", "e", "x", "e">>

\* the bucket and file the editing calls work on, and a name write and
\* append refuse
EditTargets == {<<Notes, NotesF>>}

RefusedTargets == {<<Notes, NotesExe>>}

Contents ==
    { <<>>, <<"a">>, <<"a", " ", "a">>, <<"a", LF, "b">>, <<"a", LF, "b", LF>>,
      <<"a", CR, "b">>, <<EACUTE>>, <<"s", LF, "x", LF, "e", LF, "t">>,
      <<"s", CR, "x", LF, "e">>,
      <<"A", LF, "a">>, <<"-", " ", "c", "x", LF, "-", " ", "c">>,
      <<"-", " ", "a", LF, "b">>,
      Rep("a", max_file_size_bytes), Rep("a", max_file_size_bytes + 1),
      Rep(EACUTE, max_file_size_bytes - 3) }

AppendContents == { <<"a">>, <<EACUTE>>, <<CR, "a">>, Rep("a", max_file_size_bytes - 1) }

Separators == { <<LF, LF>>, <<>> }

SearchTexts == { <<"a">>, <<"b">>, <<CR>>, <<>> }

ReplacementTexts == { <<"b">>, <<"a", "a">>, <<>> }

LineNumbers == 0..3

InsertTexts == { <<"T">> }

Positions == {"before", "after", "replace", "middle"}

StartMarkers == { <<"s">>, <<"z">> }

EndMarkers == { <<"e">>, <<"s">> }

SectionContents == { <<"N">>, <<"e">> }

SearchPatterns == { <<"a">>, <<".">>, <<"z">> }

ModificationTypes == {"replace", "insert_before", "insert_after", "delete", "append"}

NewContents == { <<"N">> }

SmartContents == { <<"A">>, <<"-", " ", "c">>, <<"T">> }

SectionHints == {"list", "task", "note", "None"}

SearchQueries == { <<>>, <<"A">>, <<"b">> }

AroundLines == { <<>>, <<0>>, <<1>>, <<2>>, <<-1>>, <<-2>> }

AroundTexts == { <<>>, <<"B">> }

ContextLines == {1}

(***************************************************************************)
(* Actions: one per operation of FileTools                                 *)
(***************************************************************************)

WriteFile(targets, contents) ==
    \E tg \in targets, content \in contents, overwrite \in BOOLEAN :
        Call("write_file", tg[1], tg[2], [content |-> content, overwrite |-> overwrite],
             write_file(dirs, files, now, tg[1], tg[2], content, overwrite))

AppendFile(targets, contents) ==
    \E tg \in targets, content \in contents, separator \in Separators :
        Call("append_file", tg[1], tg[2], [content |-> content, separator |-> separator],
             append_file(dirs, files, now, tg[1], tg[2], content, separator))

ReadFile(targets) ==
    \E tg \in targets :
        Call("read_file", tg[1], tg[2], <<>>, read_file(dirs, files, now, tg[1], tg[2]))

DeleteFile(targets) ==
    \E tg \in targets :
        Call("delete_file", tg[1], tg[2], <<>>, delete_file(dirs, files, now, tg[1], tg[2]))

ListFiles(buckets) ==
    \E bucket \in buckets :
        Call("list_files", bucket, <<>>, <<>>, list_files(dirs, files, bucket))

SearchFiles(buckets) ==
    \E query \in SearchQueries, bucket \in buckets :
        Call("search_files", bucket, <<>>, [query |-> query],
             search_files(dirs, files, now, query, bucket))

EditFileLines(targets) ==
    \E tg \in targets, search_text \in SearchTexts, replacement_text \in ReplacementTexts :
        Call("edit_file_lines", tg[1], tg[2],
             [search_text |-> search_text, replacement_text |-> replacement_text],
             edit_file_lines(dirs, files, now, tg[1], tg[2], search_text, replacement_text))

InsertAtLine(targets) ==
    \E tg \in targets, line_number \in LineNumbers, text \in InsertTexts,
       position \in Positions :
        Call("insert_at_line", tg[1], tg[2],
             [line_number |-> line_number, text |-> text, position |-> position],
             insert_at_line(dirs, files, now, tg[1], tg[2], line_number, text, position))

ReplaceSection(targets) ==
    \E tg \in targets, start_marker \in StartMarkers, end_marker \in EndMarkers,
       new_content \in SectionContents :
        Call("replace_section", tg[1], tg[2],
             [start_marker |-> start_marker, end_marker |-> end_marker,
              new_content |-> new_content],
             replace_section(dirs, files, now, tg[1], tg[2], start_marker, end_marker,
                             new_content))

FindAndModify(targets) ==
    \E tg \in targets, search_pattern \in SearchPatterns,
       modification_type \in ModificationTypes, new_content \in NewContents :
        Call("find_and_modify", tg[1], tg[2],
             [search_pattern |-> search_pattern, modification_type |-> modification_type,
              new_content |-> new_content],
             find_and_modify(dirs, files, now, tg[1], tg[2], search_pattern,
                             modification_type, new_content))

SmartAppend(targets) ==
    \E tg \in targets, content \in SmartContents, section_hint \in SectionHints,
       avoid_duplicates \in BOOLEAN :
        Call("smart_append", tg[1], tg[2],
             [content |-> content, section_hint |-> section_hint,
              avoid_duplicates |-> avoid_duplicates],
             smart_append(dirs, files, now, tg[1], tg[2], content, section_hint,
                          avoid_duplicates))

GetFilePreview(targets) ==
    \E tg \in targets, around_line \in AroundLines, around_text \in AroundTexts,
       context_lines \in ContextLines :
        Call("get_file_preview", tg[1], tg[2],
             [around_line |-> around_line, around_text |-> around_text,
              context_lines |-> context_lines],
             get_file_preview(dirs, files, now, tg[1], tg[2], around_line, around_text,
                              context_lines))

Next ==
    \/ WriteFile(EditTargets, Contents)
    \/ WriteFile(RefusedTargets, {<<"a">>})
    \/ AppendFile(EditTargets, AppendContents)
    \/ AppendFile(RefusedTargets, {<<"a">>})
    \/ ReadFile(EditTargets)
    \/ DeleteFile(EditTargets)
    \/ EditFileLines(EditTargets)
    \/ InsertAtLine(EditTargets)
    \/ ReplaceSection(EditTargets)
    \/ FindAndModify(EditTargets)
    \/ SmartAppend(EditTargets)
    \/ GetFilePreview(EditTargets)
    \/ Return

\* the editors and the store on one file of one bucket
Spec == Init /\ [][Next]_vars

(***************************************************************************)
(* The store under raw names of every shape                                *)
(***************************************************************************)

\* raw bucket and file names as a caller may give them: mixed case, a refused
\* extension, an extension behind a separator, names that sanitize to nothing
NameTargets ==
    { <<Notes, NotesF>>,
      <<<<"N", " ", "1">>, <<"f", ".", "T", "X", "T">>>>,
      <<Notes, NotesExe>>,
      <<Notes, <<"x", "/", ".", "e", "x", "e">>>>,
      <<Notes, <<"a", ".", "m", "d", " ">>>>,
      <<<<".", ".", "/">>, <<".", ".", ".">>>>,
      <<Notes, <<"x", "/", ".">> \o Rep("b", max_length - 1)>> }

NextStore ==
    \/ WriteFile(NameTargets, {<<"a">>})
    \/ AppendFile(NameTargets, {<<"a">>})
    \/ ReadFile(NameTargets)
    \/ DeleteFile(NameTargets)
    \/ ListFiles({tg[1] : tg \in NameTargets} \cup {<<>>})
    \/ SearchFiles({Notes, <<"q">>, <<>>})
    \/ SmartAppend(RefusedTargets)
    \/ Tick
    \/ Return

SpecStore == Init /\ [][NextStore]_vars

(***************************************************************************)
(* Path resolution on its own                                              *)
(***************************************************************************)

\* the longest raw file name and raw bucket name drawn from the alphabets
MaxFileNameLen == 3

MaxBucketLen == 2

FileNameAlphabet == {".", "/", "\\", " ", "a"}

BucketAlphabet == {".", "/", "A", "-", " "}

\* names past max_length, with and without an extension
LongFileNames ==
    { Rep("a", max_length + 1),
      Rep("a", max_length) \o <<".", "t", "x", "t">>,
      <<".", ".", "/">> \o Rep("a", max_length) \o <<"/", ".", ".">>,
      <<"a", ".">> \o Rep("b", max_length) }

RawFileNames == Strings(FileNameAlphabet, MaxFileNameLen) \cup LongFileNames

RawBuckets == Strings(BucketAlphabet, MaxBucketLen)

InitPaths ==
    /\ dirs = {}
    /\ files = <<>>
    /\ now \in 0..MaxClock
    /\ last \in {[op |-> "raw", bucket |-> b, filename |-> f] :
                    b \in RawBuckets, f \in RawFileNames}
    /\ calls = 0
    /\ inflight = NoCalls

\* FileTools._get_file_path on the raw names drawn
Resolve ==
    LET fp == _get_file_path(dirs, last.bucket, last.filename, now)
    IN  /\ last.op = "raw"
        /\ last' = [op |-> "_get_file_path", bucket |-> last.bucket,
                    filename |-> last.filename, path |-> fp.path]
        /\ dirs' = fp.dirs
        /\ UNCHANGED <<files, now, calls, inflight>>

NextPaths == Resolve

SpecPaths == InitPaths /\ [][NextPaths]_vars

(***************************************************************************)
(* sanitize_filename on its own                                            *)
(***************************************************************************)

\* every character sanitize_filename replaces, the two it strips, an
\* ordinary one
SanitizeAlphabet == {"<", ">", ":", "\"", "/", "\\", "|", "?", "*", ".", " ", "a"}

\* names past max_length with characters to replace and to strip
LongRawNames ==
    { Rep("a", max_length + 1),
      Rep("?", max_length) \o <<".", "t", "x", "t">>,
      <<" ", ".">> \o Rep("/", max_length) \o <<".", ":">> \o Rep("|", max_length),
      <<".", " ", ".">> \o Rep("a", max_length) \o <<" ", ".">>,
      <<"a", ".">> \o Rep("b", max_length) }

RawNames == Strings(SanitizeAlphabet, MaxFileNameLen) \cup LongRawNames

InitNames ==
    /\ dirs = {}
    /\ files = <<>>
    /\ now \in 0..MaxClock
    /\ last \in {[op |-> "raw name", filename |-> f] : f \in RawNames}
    /\ calls = 0
    /\ inflight = NoCalls

\* sanitize_filename on the raw name drawn
Sanitize ==
    /\ last.op = "raw name"
    /\ \E name \in {sanitize_filename(last.filename, now)} :
          last' = [op |-> "sanitize_filename", filename |-> last.filename, name |-> name]
    /\ UNCHANGED <<dirs, files, now, calls, inflight>>

NextNames == Sanitize

SpecNames == InitNames /\ [][NextNames]_vars

(***************************************************************************)
(* sanitize_bucket_name on its own                                         *)
(***************************************************************************)

\* the longest raw bucket name drawn for sanitize_bucket_name
MaxRawBucketLen == 4

\* an upper-case letter, a digit, the two characters stripped from the
\* ends, the space that becomes "_", a character that is removed
RawBucketAlphabet == {"A", "0", "_", "-", " ", "."}

RawBucketNames == Strings(RawBucketAlphabet, MaxRawBucketLen)

InitBuckets ==
    /\ dirs = {}
    /\ files = <<>>
    /\ now = 0
    /\ last \in {[op |-> "raw bucket", bucket |-> b] : b \in RawBucketNames}
    /\ calls = 0
    /\ inflight = NoCalls

\* sanitize_bucket_name on the raw name drawn
SanitizeBucket ==
    /\ last.op = "raw bucket"
    /\ \E name \in {sanitize_bucket_name(last.bucket)} :
          last' = [op |-> "sanitize_bucket_name", bucket |-> last.bucket, name |-> name]
    /\ UNCHANGED <<dirs, files, now, calls, inflight>>

NextBuckets == SanitizeBucket

SpecBuckets == InitBuckets /\ [][NextBuckets]_vars

(***************************************************************************)
(* smart_content_placement on its own                                      *)
(***************************************************************************)

MaxPlacementLines == 4

PlacementLines ==
    { <<>>, <<" ">>, <<"x">>, <<"-", "a">>, <<"-", " ", "a">>, <<" ", "*", " ", "b">>,
      <<"1", ".", " ", "c">>, <<BULLET, " ", "d">>, <<"t", "o", "d", "o">> }

\* the texts placement is asked about: up to MaxPlacementLines lines
ExistingContents == { Join(ls, <<LF>>) : ls \in Strings(PlacementLines, MaxPlacementLines) }

InitPlacement ==
    /\ dirs = {}
    /\ files = <<>>
    /\ now = 0
    /\ last \in {[op |-> "existing content", existing_content |-> c] : c \in ExistingContents}
    /\ calls = 0
    /\ inflight = NoCalls

\* smart_content_placement on the text drawn, under each hint
Place ==
    /\ last.op = "existing content"
    /\ \E hint \in SectionHints :
         \E index \in {smart_content_placement(last.existing_content, hint)} :
            last' = [op |-> "smart_content_placement",
                     existing_content |-> last.existing_content,
                     content_type_hint |-> hint, index |-> index]
    /\ UNCHANGED <<dirs, files, now, calls, inflight>>

NextPlacement == Place

SpecPlacement == InitPlacement /\ [][NextPlacement]_vars

(***************************************************************************)
(* Two callers editing one file, no lock between read and write            *)
(***************************************************************************)

\* the outcomes a handler reaches through open(file_path, 'w')
Writes(r) ==
    /\ r.exc = "none"
    /\ r.ret.kind \in {"Successfully replaced text", "Smart append", "Created new file",
                       "Created", "Overwrote"}

RaceContents == { <<"a", " ", "b">>, <<"a", LF, "b">> }

RaceSearchTexts == { <<"a">>, <<"b">>, <<"z">> }

RaceReplacementTexts == { <<"x">>, <<"y">> }

RaceSmartContents == { <<"c">>, <<"d">> }

RaceWriteContents == { <<"v">>, <<"w">> }

InitRace ==
    /\ \/ dirs = {} /\ files = <<>>
       \/ \E c \in RaceContents :
            dirs = {Notes} /\ files = Store(<<>>, <<Notes, NotesF>>, c)
    /\ now = 0
    /\ last = Idle
    /\ calls = 0
    /\ inflight = NoCalls

\* caller p runs a handler up to its read: the path is resolved, the file is
\* read and the text to write is computed from what was read (r is what the
\* handler makes of the tree it reads); a handler that returns or raises
\* before its write ends here
ReadStep(p, op, args, r) ==
    /\ inflight.proc[p].pc = "idle"
    /\ \E res \in {r}, path \in {_get_file_path(dirs, Notes, NotesF, now).path} :
        /\ dirs' = res.dirs
        /\ inflight' =
             [proc |-> [inflight.proc EXCEPT ![p] =
                          IF Writes(res)
                          THEN [pc |-> "read", op |-> op, args |-> args, path |-> path,
                                seen |-> files, pending |-> res.files[path],
                                exc |-> res.exc, ret |-> res.ret]
                          ELSE [pc |-> "done", op |-> op, args |-> args, path |-> path,
                                seen |-> files, exc |-> res.exc, ret |-> res.ret]],
              order |-> Append(inflight.order, <<"read", p>>)]
        /\ UNCHANGED <<files, now, last, calls>>

StartEditFileLines(p) ==
    \E search_text \in RaceSearchTexts, replacement_text \in RaceReplacementTexts :
        ReadStep(p, "edit_file_lines",
                 [search_text |-> search_text, replacement_text |-> replacement_text],
                 edit_file_lines(dirs, files, now, Notes, NotesF, search_text,
                                 replacement_text))

StartSmartAppend(p) ==
    \E content \in RaceSmartContents :
        ReadStep(p, "smart_append",
                 [content |-> content, section_hint |-> "None", avoid_duplicates |-> TRUE],
                 smart_append(dirs, files, now, Notes, NotesF, content, "None", TRUE))

\* write_file up to its test of file_path.exists(): the type and the size are
\* checked, the path is resolved and the file is found absent or present
StartWriteFile(p) ==
    \E content \in RaceWriteContents :
        ReadStep(p, "write_file", [content |-> content, overwrite |-> FALSE],
                 write_file(dirs, files, now, Notes, NotesF, content, FALSE))

\* a write step that reads the file again and computes its text from that
WriteStepRereading(p) ==
    LET c == inflight.proc[p]
    IN  /\ c.pc = "read"
        /\ files' = Apply(c.op, Notes, NotesF, c.args, dirs, files, now).files
        /\ inflight' =
             [proc |-> [inflight.proc EXCEPT ![p] =
                          [pc |-> "done", op |-> c.op, args |-> c.args, path |-> c.path,
                           seen |-> c.seen, exc |-> c.exc, ret |-> c.ret]],
              order |-> Append(inflight.order, <<"write", p>>)]
        /\ UNCHANGED <<dirs, now, last, calls>>

\* caller p's handler writes the text it computed from what it read, over
\* whatever the file holds by now, and returns
WriteStep(p) ==
    LET c == inflight.proc[p]
    IN  /\ c.pc = "read"
        /\ files' = [q \in DOMAIN files \cup {c.path} |->
                        IF q = c.path THEN c.pending ELSE files[q]]
        /\ inflight' =
             [proc |-> [inflight.proc EXCEPT ![p] =
                          [pc |-> "done", op |-> c.op, args |-> c.args, path |-> c.path,
                           seen |-> c.seen, exc |-> c.exc, ret |-> c.ret]],
              order |-> Append(inflight.order, <<"write", p>>)]
        /\ UNCHANGED <<dirs, now, last, calls>>

NextRace ==
    \E p \in Callers :
        \/ StartEditFileLines(p)
        \/ StartSmartAppend(p)
        \/ StartWriteFile(p)
        \/ WriteStep(p)

SpecRace == InitRace /\ [][NextRace]_vars

(***************************************************************************)
(* Properties                                                              *)
(***************************************************************************)

\* a call step: the caller was idle and the call in last' has ended
CallStep(op) == last = Idle /\ last'.op = op

\* the tree the call in last leaves when it is made again with the same
\* arguments
Retried == Apply(last.op, last.bucket, last.filename, last.args, dirs, files, now)

\* the lines of a text, with or without a newline after the last one
FileLines(text) == RStripLines(ReadLines(text))

\* C1: a call that raises ValueError (the file exists and overwrite is
\* false, the type is not allowed, the size is over the ceiling, the
\* position or modification_type is invalid, the line number is out of
\* range) leaves the content of every stored file as it was before the call.
C1_FailedCallWritesNothing ==
    [][(last = Idle /\ last'.op # "idle" /\ last'.exc = "ValueError") => files' = files]_vars

\* an editor has refused, for its size, a change to a file that holds text
C1_Witness ==
    /\ last.op = "insert_at_line"
    /\ last.exc = "ValueError"
    /\ last.ret.kind = "exceeds limit"
    /\ last.path \in DOMAIN files
    /\ files[last.path] # <<>>

\* C2: write(b, f, C, overwrite=false) on an absent file followed by
\* read(b, f) returns exactly C, whatever characters C holds.
C2_WriteReadRoundTrip ==
    (last.op = "write_file" /\ last.exc = "none" /\ ~last.args.overwrite) =>
        LET r == read_file(dirs, files, now, last.bucket, last.filename)
        IN  r.exc = "none" /\ r.ret.content = last.args.content

\* C3: after any sequence of calls every stored file has at most
\* max_file_size_bytes bytes; a write of allowed type is refused for its
\* size exactly when its content has more bytes than the ceiling.
C3_SizeCeiling ==
    /\ \A p \in DOMAIN files : ByteLen(files[p]) <= max_file_size_bytes
    /\ (last.op = "write_file" /\ is_allowed_file_type(last.filename)) =>
          ((ByteLen(last.args.content) > max_file_size_bytes)
             <=> (last.exc = "ValueError" /\ last.ret.kind = "exceeds limit"))

\* an append has brought a file to exactly the ceiling
C3_Witness ==
    /\ last.op = "append_file"
    /\ last.exc = "none"
    /\ last.ret.kind = "Appended"
    /\ ByteLen(files[last.path]) = max_file_size_bytes

\* one component of a path below the storage root: not empty, no
\* separator in it, neither "." nor ".."
SafeComponent(c) ==
    /\ c # <<>>
    /\ \A i \in 1..Len(c) : c[i] \notin {"/", "\\"}
    /\ c # <<".">>
    /\ c # <<".", ".">>

\* C4: for every raw bucket and raw file name the resolved path is
\* storage_root/<bucket>/<file> with exactly one bucket component and one
\* file component, neither "." nor "..", and the only directory the
\* resolution creates is that bucket's.
C4_PathUnderRoot ==
    last.op = "_get_file_path" =>
        /\ Len(last.path) = 2
        /\ SafeComponent(last.path[1])
        /\ SafeComponent(last.path[2])
        /\ dirs = {last.path[1]}

\* a file name that climbs out of a bucket named ".." has been resolved
C4_Witness ==
    /\ last.op = "_get_file_path"
    /\ last.bucket = <<".", ".">>
    /\ last.filename = <<".", ".", "/">>
    /\ last.path = <<<<"d", "e", "f", "a", "u", "l", "t">>, <<"_">>>>

\* C5: write and append raise ValueError and store nothing whenever the
\* sanitized file name has a non-empty extension outside the allow-list, so
\* every stored file has an empty or allow-listed extension.
C5_StoredNamesAllowed ==
    /\ \A p \in DOMAIN files : is_allowed_file_type(p[2])
    /\ (last.op \in {"write_file", "append_file"}
          /\ ~is_allowed_file_type(sanitize_filename(last.filename, now)))
       => (last.exc = "ValueError" /\ last.ret.kind = "File type not allowed")

\* the interleaving read1, read2, write1, write2
LostUpdateOrder == <<<<"read", 1>>, <<"read", 2>>, <<"write", 1>>, <<"write", 2>>>>

\* C6: after the interleaving read1, read2, write1, write2 of two editing
\* calls on one file, both calls have reported success and the file holds
\* what the second call alone makes of the text both read: the first
\* caller's change is not in it.
C6_LostUpdate ==
    inflight.order = LostUpdateOrder =>
        LET c1 == inflight.proc[1]
            c2 == inflight.proc[2]
            alone == Apply(c2.op, Notes, NotesF, c2.args, dirs, c1.seen, now)
        IN  /\ c1.seen = c2.seen
            /\ Writes(c1) /\ Writes(c2)
            /\ files = alone.files

\* the interleaving has happened, the first caller's write changed the file,
\* and the file differs from what the two calls leave one after the other
C6_Witness ==
    /\ inflight.order = LostUpdateOrder
    /\ LET c1 == inflight.proc[1]
           c2 == inflight.proc[2]
           first == Apply(c1.op, Notes, NotesF, c1.args, dirs, c1.seen, now)
           second == Apply(c2.op, Notes, NotesF, c2.args, dirs, first.files, now)
       IN  /\ c1.path \in DOMAIN c1.seen
           /\ first.files # c1.seen
           /\ Writes(second)
           /\ files # second.files

C8_AppendConcatenates ==
    [][CallStep("append_file") =>
        LET p == last'.path
            S == last'.args.separator
            C == last'.args.content
            want == IF p \in DOMAIN files THEN files[p] \o S \o C ELSE C
        IN  /\ is_allowed_file_type(last'.filename) =>
                ((last'.exc = "none") <=> (ByteLen(want) <= max_file_size_bytes))
            /\ last'.exc = "none" => files'[p] = want]_vars

\* the second of two appends has left C1 + S + C2 with a separator S that
\* is not empty
C8_Witness ==
    /\ last.op = "append_file"
    /\ last.ret.kind = "Appended"
    /\ calls = 2
    /\ last.args.separator # <<>>
    /\ files[last.path] = <<"a">> \o last.args.separator \o last.args.content

\* C9: a successful edit_file_lines stores the file's text with every
\* occurrence of search_text replaced by replacement_text and nothing else
\* changed, and returns a diff naming the (original) and (modified) labels.
C9_EditReplacesAll ==
    [][(CallStep("edit_file_lines") /\ last'.exc = "none"
          /\ last'.ret.kind = "Successfully replaced text") =>
        /\ files'[last'.path] = Replace(files[last'.path], last'.args.search_text,
                                        last'.args.replacement_text)
        /\ last'.ret.diff.fromfile = <<<<last'.bucket, last'.filename>>, "(original)">>
        /\ last'.ret.diff.tofile = <<<<last'.bucket, last'.filename>>, "(modified)">>]_vars

\* C10: a successful insert_at_line at line L with the one-line text T
\* leaves the file's lines with T as a new line before line L ('before'),
\* after line L ('after') or in place of line L ('replace'), the other
\* lines unchanged and in order, whether or not the last line ends in a
\* newline.
C10_InsertAtLineEffect ==
    [][(CallStep("insert_at_line") /\ last'.exc = "none") =>
        LET old == FileLines(TextRead(files[last'.path]))
            new == FileLines(TextRead(files'[last'.path]))
            L == last'.args.line_number
            T == last'.args.text
        IN  new = IF last'.args.position = "before" THEN ListInsert(old, L - 1, T)
                  ELSE IF last'.args.position = "after" THEN ListInsert(old, L, T)
                  ELSE [old EXCEPT ![L] = T]]_vars

\* C11: a successful replace_section stores lines[0..s], then new_content,
\* then lines[e..end] of the file's text, where s is the first line holding
\* start_marker and e the first line after s holding end_marker: the marker
\* lines and the lines outside them are kept and what lies between them is
\* replaced by new_content.
C11_ReplaceSectionEffect ==
    [][(CallStep("replace_section") /\ last'.exc = "none"
          /\ last'.ret.kind = "Successfully replaced section") =>
        LET lines == Split(files[last'.path], LF)
            s == StartIdx(lines, last'.args.start_marker)
            e == EndIdx(lines, s, last'.args.end_marker)
        IN  /\ s # 0
            /\ e # 0
            /\ files'[last'.path] =
                 Join(SubSeq(lines, 1, s) \o <<last'.args.new_content>>
                        \o SubSeq(lines, e, Len(lines)), <<LF>>)]_vars

\* C12: a successful find_and_modify changes only the first line, from the
\* top, that the pattern matches: 'replace' rewrites that line,
\* 'insert_before' and 'insert_after' add new_content as a line directly
\* before and after it, 'delete' removes it; every other line of the file,
\* later matching lines included, keeps its text and its place in the order.
C12_FindAndModifyFirstMatch ==
    [][(CallStep("find_and_modify") /\ last'.exc = "none"
          /\ last'.ret.kind = "Successfully modified") =>
        LET old == Split(files[last'.path], LF)
            new == Split(files'[last'.path], LF)
            i == FirstMatch(old, last'.args.search_pattern)
            type == last'.args.modification_type
        IN  /\ i # 0
            /\ type = "replace" =>
                 /\ Len(new) = Len(old)
                 /\ \A k \in 1..Len(old) : k # i => new[k] = old[k]
            /\ type = "insert_before" => new = ListInsert(old, i - 1, last'.args.new_content)
            /\ type = "insert_after" => new = ListInsert(old, i, last'.args.new_content)
            /\ type = "delete" =>
                 \/ new = SubSeq(old, 1, i - 1) \o SubSeq(old, i + 1, Len(old))
                 \/ Len(old) = 1 /\ new = <<<<>>>>]_vars

\* C13: smart_append with avoid_duplicates true, on a file whose text is not
\* empty and has a line of similarity at least 0.8 to the new content
\* ignoring case, writes nothing and returns the message naming the 1-based
\* number and the text of the best-matching line: the highest similarity,
\* and of the lines that share it the earliest.
C13_DuplicateRefused ==
    [][(CallStep("smart_append") /\ last'.args.avoid_duplicates
          /\ last'.path \in DOMAIN files) =>
        LET lines == Split(TextRead(files[last'.path]), LF)
            score == [i \in 1..Len(lines) |->
                        Ratio(Lower(last'.args.content), Lower(lines[i]))]
            similar == {i \in 1..Len(lines) : RatioGeq(score[i], 8, 10)}
        IN  (files[last'.path] # <<>> /\ similar # {}) =>
              /\ files' = files
              /\ last'.exc = "none"
              /\ last'.ret.kind = "Similar content already exists"
              /\ last'.ret.line_num \in similar
              /\ \A j \in similar :
                    /\ ~RatioGt(score[j], score[last'.ret.line_num])
                    /\ (j < last'.ret.line_num =>
                          RatioGt(score[last'.ret.line_num], score[j]))
              /\ last'.ret.line_text = lines[last'.ret.line_num]]_vars

\* a smart_append has been refused for a line that is not the first of the
\* file to reach the threshold
C13_Witness ==
    /\ last.op = "smart_append"
    /\ last.exc = "none"
    /\ last.ret.kind = "Similar content already exists"
    /\ last.ret.line_num = 2
    /\ files[last.path] = <<"-", " ", "c", "x", LF, "-", " ", "c">>

\* C14: when edit_file_lines finds no occurrence of search_text,
\* replace_section finds no line with the start marker or no line with the
\* end marker after the start line, find_and_modify finds no line the
\* pattern matches, or get_file_preview finds no line holding around_text,
\* the call returns its message for the case, raises nothing and leaves
\* every file as it was.
C14_NoMatchReturnsMessage ==
    [][(last = Idle /\ last'.op # "idle" /\ last'.path \in DOMAIN files) =>
        LET text == TextRead(files[last'.path])
            lines == Split(text, LF)
            a == last'.args
            said(kinds) == /\ last'.exc = "none"
                           /\ last'.ret.kind \in kinds
                           /\ files' = files
        IN  /\ (last'.op = "edit_file_lines" /\ ~Contains(text, a.search_text))
                 => said({"No matches found"})
            /\ (last'.op = "replace_section"
                  /\ \A i \in 1..Len(lines) : ~Contains(lines[i], a.start_marker))
                 => said({"Start marker not found"})
            /\ (last'.op = "replace_section"
                  /\ \E i \in 1..Len(lines) :
                        /\ Contains(lines[i], a.start_marker)
                        /\ \A j \in 1..(i - 1) : ~Contains(lines[j], a.start_marker)
                        /\ \A k \in (i + 1)..Len(lines) : ~Contains(lines[k], a.end_marker))
                 => said({"End marker not found"})
            /\ (last'.op = "find_and_modify"
                  /\ a.modification_type \in {"replace", "insert_before", "insert_after",
                                              "delete"}
                  /\ \A i \in 1..Len(lines) : ~re_search(a.search_pattern, lines[i]))
                 => said({"Pattern not found"})
            /\ (last'.op = "get_file_preview"
                  /\ (a.around_line = <<>> \/ a.around_line = <<0>>)
                  /\ a.around_text # <<>>
                  /\ \A i \in 1..Len(lines) :
                        ~Contains(Lower(lines[i]), Lower(a.around_text)))
                 => said({"Text not found"})]_vars

\* replace_section has found its start marker in a file with text after it
\* and no end marker below it, though the start line itself holds one
C14_Witness ==
    /\ last.op = "replace_section"
    /\ last.exc = "none"
    /\ last.ret.kind = "End marker not found"
    /\ last.args.end_marker = last.args.start_marker
    /\ files[last.path] = <<"s", LF, "x", LF, "e", LF, "t">>

\* C15: the message of a successful write says 'created' exactly when the
\* file did not exist before the call and 'overwrote' exactly when it
\* existed and overwrite was true, and in both cases gives the number of
\* characters of the content.
C15_WriteMessageStatesAction ==
    [][(CallStep("write_file") /\ last'.exc = "none") =>
        /\ (last'.ret.kind = "Created") <=> (last'.path \notin DOMAIN files)
        /\ (last'.ret.kind = "Overwrote") <=>
              (last'.path \in DOMAIN files /\ last'.args.overwrite)
        /\ last'.ret.chars = Len(last'.args.content)]_vars

\* C16: delete raises FileNotFoundError when the file is absent; otherwise
\* it removes that file and no other, removes the bucket directory too
\* exactly when no file is left in it and then says so in its message, and
\* leaves every other file and every other bucket as it was.
C16_DeleteRemovesExactlyTheFile ==
    [][CallStep("delete_file") =>
        LET p == last'.path
            emptied == ~\E q \in DOMAIN files' : q[1] = p[1]
        IN  /\ dirs' \ {p[1]} = dirs \ {p[1]}
            /\ IF p \notin DOMAIN files
               THEN last'.exc = "FileNotFoundError" /\ files' = files
               ELSE /\ last'.exc = "none"
                    /\ DOMAIN files' = DOMAIN files \ {p}
                    /\ \A q \in DOMAIN files' : files'[q] = files[q]
                    /\ p[1] \in dirs' <=> ~emptied
                    /\ (last'.ret.kind = "deleted and removed empty bucket") <=> emptied
                    /\ (last'.ret.kind = "deleted") <=> ~emptied]_vars

\* a delete has removed one of the files of a bucket that holds another
C16_Witness ==
    /\ last.op = "delete_file"
    /\ last.exc = "none"
    /\ last.ret.kind = "deleted"
    /\ last.path \notin DOMAIN files
    /\ \E q \in DOMAIN files : q[1] = last.path[1]

\* C17: starting from an empty store, after any sequence of calls (reads,
\* deletes and listings of names that do not exist included) every bucket
\* directory that exists holds at least one file.
C17_NoEmptyBucket ==
    \A d \in dirs : \E p \in DOMAIN files : p[1] = d

\* C18: after write(b, f, C) has succeeded, whatever the raw names b and f
\* (those that sanitize to nothing and get a default name included), a read
\* with the same raw names, then or later, finds the file and returns C.
C18_ReadFindsWhatWasWritten ==
    (last.op = "write_file" /\ last.exc = "none") =>
        \A t \in now..MaxClock :
            LET r == read_file(dirs, files, t, last.bucket, last.filename)
            IN  r.exc = "none" /\ r.ret.content = last.args.content

\* C19 as stated: on an existing file insert_at_line raises ValueError
\* exactly when position is none of before, after, replace or line_number
\* lies outside 1..total_lines, and succeeds for every other combination of
\* arguments.
C19_InsertRaisesExactlyOnBadArguments ==
    [][(CallStep("insert_at_line") /\ last'.path \in DOMAIN files) =>
        LET total_lines == Len(ReadLines(TextRead(files[last'.path])))
            L == last'.args.line_number
        IN  /\ last'.exc \in {"ValueError", "none"}
            /\ (last'.exc = "ValueError") <=>
                  \/ last'.args.position \notin {"before", "after", "replace"}
                  \/ L < 1
                  \/ L > total_lines]_vars

\* C19 as amended: on an existing file insert_at_line raises ValueError
\* exactly when position is none of before, after, replace, or line_number
\* lies outside 1..total_lines, or the text the call would store has more
\* bytes than the ceiling; it succeeds otherwise.  total_lines counts the
\* lines of the text as the call reads it.
C19_InsertRaisesExactlyWhen ==
    [][(CallStep("insert_at_line") /\ last'.path \in DOMAIN files) =>
        LET text == TextRead(files[last'.path])
            lines == ReadLines(text)
            total_lines == Len(lines)
            L == last'.args.line_number
            bad == \/ last'.args.position \notin {"before", "after", "replace"}
                   \/ L < 1
                   \/ L > total_lines
            size == ByteLen(text) + ByteLen(last'.args.text) + 1
                      - (IF last'.args.position = "replace" THEN ByteLen(lines[L]) ELSE 0)
        IN  /\ last'.exc \in {"ValueError", "none"}
            /\ (last'.exc = "ValueError") <=> (bad \/ size > max_file_size_bytes)]_vars

\* the line after the last one has been refused on a file of two lines
C19_Witness ==
    /\ last.op = "insert_at_line"
    /\ last.exc = "ValueError"
    /\ last.ret.kind = "out of range"
    /\ last.args.line_number = 3
    /\ last.args.position = "after"
    /\ files[last.path] = <<"a", LF, "b">>

\* C20: for every input string the output of sanitize_filename is not empty
\* and holds none of the characters / \ : * ? " < > |.
C20_SanitizedNameClean ==
    last.op = "sanitize_filename" =>
        /\ last.name # <<>>
        /\ \A i \in 1..Len(last.name) :
              last.name[i] \notin {"/", "\\", ":", "*", "?", "\"", "<", ">", "|"}

\* a name made of characters to replace and to strip has been sanitized
C20_Witness ==
    /\ last.op = "sanitize_filename"
    /\ last.filename = <<".", "?", "/">>
    /\ last.name = <<"_", "_">>

\* C21: for every input string sanitize_filename returns a name of at most
\* 255 characters, and when the input was longer than 255 characters and
\* ended in a '.ext' suffix the name returned ends in that suffix.
C21_SanitizedNameLength ==
    last.op = "sanitize_filename" =>
        /\ Len(last.name) <= max_length
        /\ LET dot == RFind(last.filename, ".")
               ext == SubSeq(last.filename, dot + 1, Len(last.filename))
           IN  (/\ Len(last.filename) > max_length
                /\ dot > 1
                /\ ext # <<>>
                /\ \A i \in 1..Len(ext) : ext[i] \notin InvalidFilenameChars \cup {" "})
               => EndsWith(last.name, <<".">> \o ext)

\* C22: for every input string the output of sanitize_bucket_name holds only
\* characters of a-z, 0-9, "_" and "-", neither begins nor ends with "-" or
\* "_", is not empty, and is left unchanged by sanitize_bucket_name.
C22_SanitizedBucketClean ==
    last.op = "sanitize_bucket_name" =>
        /\ last.name # <<>>
        /\ \A i \in 1..Len(last.name) :
              \/ \E k \in 1..Len(LowerCase) : last.name[i] = LowerCase[k]
              \/ \E k \in 1..Len(DigitChars) : last.name[i] = DigitChars[k]
              \/ last.name[i] \in {"_", "-"}
        /\ last.name[1] \notin {"-", "_"}
        /\ last.name[Len(last.name)] \notin {"-", "_"}
        /\ sanitize_bucket_name(last.name) = last.name

\* a name with a space inside and characters to strip at both ends has been
\* sanitized
C22_Witness ==
    /\ last.op = "sanitize_bucket_name"
    /\ last.bucket = <<"-", "A", " ", "0">>
    /\ last.name = <<"a", "_", "0">>

\* C23: get_file_preview with around_line = L and context c returns, for
\* every integer L, exactly the lines numbered max(1, L - c) to
\* min(total_lines, L + c), each with its 1-based number; with around_text
\* alone it centres that window on the first line holding the text, case
\* ignored; with neither it returns the first 2 * c lines.
C23_PreviewWindow ==
    (last.op = "get_file_preview" /\ last.exc = "none" /\ last.ret.kind = "Preview") =>
        LET lines == Split(TextRead(files[last.path]), LF)
            c == last.args.context_lines
            Numbered(lo, hi) ==
                [i \in 1..(hi - lo + 1) |-> [line_num |-> lo + i - 1, line |-> lines[lo + i - 1]]]
            Around(L) == Numbered(Max(1, L - c), Min(Len(lines), L + c))
            holds(i) == Contains(Lower(lines[i]), Lower(last.args.around_text))
        IN  IF last.args.around_line # <<>>
            THEN last.ret.preview = Around(last.args.around_line[1])
            ELSE IF last.args.around_text # <<>>
            THEN \E i \in 1..Len(lines) :
                    /\ holds(i)
                    /\ \A j \in 1..(i - 1) : ~holds(j)
                    /\ last.ret.preview = Around(i)
            ELSE last.ret.preview = Numbered(1, Min(Len(lines), 2 * c))

\* C24: smart_append validates the file type as write and append do before
\* it changes anything: for a file whose extension is not empty and not on
\* the allow-list it raises ValueError and creates or modifies no file.
C24_SmartAppendChecksType ==
    [][(CallStep("smart_append") /\ ~is_allowed_file_type(last'.path[2])) =>
        /\ last'.exc = "ValueError"
        /\ files' = files]_vars

\* C25: with the hint "list", smart_content_placement finds the first line i
\* matching a bullet or numbered-list pattern and returns the index of the
\* first later line that is blank or matches none of the list patterns, the
\* number of lines when there is no such line or no line matches a pattern.
C25_ListPlacementAnyPattern ==
    (last.op = "smart_content_placement" /\ last.content_type_hint = "list") =>
        LET lines == Split(last.existing_content, LF)
            item(i) == \E k \in 1..3 : ListPatternMatch(k, lines[i])
            stops(j) == Strip(lines[j], Whitespace) = <<>> \/ ~item(j)
        IN  IF \E i \in 1..Len(lines) : item(i)
            THEN \E i \in 1..Len(lines) :
                    /\ item(i) /\ \A h \in 1..(i - 1) : ~item(h)
                    /\ IF \E j \in (i + 1)..Len(lines) : stops(j)
                       THEN \E j \in (i + 1)..Len(lines) :
                               /\ stops(j) /\ \A h \in (i + 1)..(j - 1) : ~stops(h)
                               /\ last.index = j - 1
                       ELSE last.index = Len(lines)
            ELSE last.index = Len(lines)

\* C25, amended: the list ends at the first later line that is blank or does
\* not match the pattern line i matched, the first of the three that matches
\* it.
C25_ListPlacementSamePattern ==
    (last.op = "smart_content_placement" /\ last.content_type_hint = "list") =>
        LET lines == Split(last.existing_content, LF)
            item(i) == \E k \in 1..3 : ListPatternMatch(k, lines[i])
        IN  IF \E i \in 1..Len(lines) : item(i)
            THEN \E i \in 1..Len(lines), k \in 1..3 :
                    /\ item(i) /\ \A h \in 1..(i - 1) : ~item(h)
                    /\ ListPatternMatch(k, lines[i])
                    /\ \A h \in 1..(k - 1) : ~ListPatternMatch(h, lines[i])
                    /\ LET stops(j) == \/ Strip(lines[j], Whitespace) = <<>>
                                       \/ ~ListPatternMatch(k, lines[j])
                       IN  IF \E j \in (i + 1)..Len(lines) : stops(j)
                           THEN \E j \in (i + 1)..Len(lines) :
                                   /\ stops(j) /\ \A h \in (i + 1)..(j - 1) : ~stops(h)
                                   /\ last.index = j - 1
                           ELSE last.index = Len(lines)
            ELSE last.index = Len(lines)

\* a bullet list followed at once by a numbered one: the insertion point is
\* between the two
C25_Witness ==
    /\ last.op = "smart_content_placement"
    /\ last.content_type_hint = "list"
    /\ last.existing_content = <<"x", LF, "-", " ", "a", LF, "1", ".", " ", "c", LF, "x">>
    /\ last.index = 2

\* C26: for every successful structural edit (edit_file_lines,
\* insert_at_line, replace_section, find_and_modify, smart_append on existing
\* content) the modified lines the returned diff is computed from are the
\* lines of the content written to the file, and the original lines are the
\* lines the file had before the call, as the call read them.
C26_DiffShowsWhatWasStored ==
    [][(/\ last = Idle
        /\ last'.op \in {"edit_file_lines", "insert_at_line", "replace_section",
                         "find_and_modify", "smart_append"}
        /\ last'.exc = "none"
        /\ "diff" \in DOMAIN last'.ret) =>
        LET old == TextRead(files[last'.path])
            new == files'[last'.path]
            d == last'.ret.diff
        IN  IF d.fromfile = <<>>
            THEN Split(new, LF) = Split(old, LF) \/ FileLines(new) = FileLines(old)
            ELSE \/ d.a = Split(old, LF) /\ d.b = Split(new, LF)
                 \/ d.a = FileLines(old) /\ d.b = FileLines(new)]_vars

\* C27: under any interleaving of concurrent calls, a write with
\* overwrite = false that returns success replaces no content another call
\* had stored at that path by then: of two such writes to one absent file at
\* most one succeeds.
C27_WriteNeverReplaces ==
    [][\A p \in Callers :
         (/\ inflight.proc[p].pc = "read"
          /\ inflight'.proc[p].pc = "done"
          /\ inflight.proc[p].op = "write_file"
          /\ ~inflight.proc[p].args.overwrite)
         => inflight.proc[p].path \notin DOMAIN files]_vars

\* C28: a successful smart_append only adds text: the file's new content is
\* its old content with one block, the new content with at most one newline
\* before or after it, spliced in at a line boundary or at the end; no
\* character the file held is removed, moved or changed.
C28_SmartAppendOnlyAdds ==
    [][(CallStep("smart_append") /\ last'.exc = "none"
          /\ last'.ret.kind \in {"Smart append", "Created new file"}) =>
        LET old == IF last'.path \in DOMAIN files THEN files[last'.path] ELSE <<>>
            new == files'[last'.path]
            content == last'.args.content
        IN  \E k \in 0..Len(old), block \in {content, content \o <<LF>>, <<LF>> \o content} :
               /\ k = 0 \/ k = Len(old) \/ old[k] = LF
               /\ new = SubSeq(old, 1, k) \o block \o SubSeq(old, k + 1, Len(old))]_vars

\* C29: in every state reached through the operations, read_file on the
\* bucket and file name of every entry list_files returns succeeds and
\* returns that file's content; so search_files(q) returns every stored file
\* whose content holds q, case ignored, and creates no directory.
C29_ListedFilesAreReadable ==
    [][/\ \A e \in list_files(dirs, files, <<>>).ret.entries :
            \E r \in {read_file(dirs, files, now, e.bucket, e.filename)} :
               /\ r.exc = "none"
               /\ r.ret.content = TextRead(files[<<e.bucket, e.filename>>])
       /\ (CallStep("search_files") /\ last'.bucket = <<>>) =>
            /\ {x.file : x \in last'.ret.results}
                 = {p \in DOMAIN files :
                      Contains(Lower(TextRead(files[p])), Lower(last'.args.query))}
            /\ dirs' = dirs]_vars

\* C30: edit_file_lines returns the "No matches found" message only if
\* search_text does not occur in the file as the call reads it: when it
\* occurs the call does not report that nothing matched, whatever the
\* replacement text.
C30_NoMatchesOnlyWhenAbsent ==
    [][(CallStep("edit_file_lines") /\ last'.exc = "none"
          /\ last'.ret.kind = "No matches found") =>
        ~Contains(TextRead(files[last'.path]), last'.args.search_text)]_vars

====
